---- MODULE Spec2Model ----
(***************************************************************************)
(* Resource synchronisation of meme-generator-rs                           *)
(* (src/meme_generator/src/resources.rs): check_resources fetches the      *)
(* manifest resources.json, finds per category the entries whose local     *)
(* file is missing or has another SHA-256 digest, and downloads them in    *)
(* tokio tasks that share one semaphore per download_resources call.       *)
(*                                                                         *)
(* Strings are TLA+ strings (URLs and paths are built by concatenation).   *)
(* A file's content is a sequence of bytes; a response body arrives as a   *)
(* sequence of chunks of one byte each.  The byte 0 only appears where a   *)
(* write beyond the end of a file leaves a hole.                           *)
(***************************************************************************)
EXTENDS Integers, Sequences, FiniteSets, Bags, TLC

(* ---------------------------------------------------------------- bounds *)

\* Capacity of the semaphore.  The source creates it with 32 permits
\* (resources.rs:113); the model scales the capacity down so that the number
\* of tasks of one category can exceed it.  Every formula is stated in terms
\* of Permits.
Permits == 2

\* Longest fonts list and longest images list of the manifests of the
\* initial states (InitImages, InitBoth).
MaxFonts == 1

MaxImages == 2

\* Most files of the initial file tree that cannot be opened for reading.
MaxUnreadable == 1

\* Number of calls of check_resources in one behaviour.
MaxRuns == 2

(* ------------------------------------------------------------- constants *)

VERSION == "1"

\* CONFIG.resource.resource_url: a value of the configuration, which
\* resources.rs reads and does not set.
CONFIG_resource_url == "https://cdn/repo@"

FONTS_DIR == "/home/fonts"

IMAGES_DIR == "/home/images"

None == "None"

Categories == {"fonts", "images"}

\* The argument base_url: Option<String>: None, or Some of a string that
\* ends or does not end with "/".
BaseUrlArgs == {None, "https://mirror", "https://mirror/"}

FontNames == <<"f.ttf">>

ImageNames == <<"a.png", "b.png", "c.png", "d.png", "e.png">>

\* The response bodies a server may send: one is a proper prefix of the other.
Bodies == {<<1>>, <<1, 2>>}

\* HTTP status codes of a response (is_success: 200..299).
Statuses == {200, 404, 500}

IsSuccess(status) == status >= 200 /\ status <= 299

(* --------------------------------------------------------------- helpers *)

Min(a, b) == IF a <= b THEN a ELSE b

Max(a, b) == IF a >= b THEN a ELSE b

Range(s) == {s[k] : k \in 1..Len(s)}

\* All sequences over S of length at most n.
SeqUpTo(S, n) == UNION {[1..m -> S] : m \in 0..n}

\* Sha256 digest of a content, as the hex string format!("{:x}") gives: an
\* injective function of the byte sequence (a leading 1 keeps the length).
RECURSIVE Digest(_)
Digest(content) ==
    IF content = <<>> THEN 1
    ELSE 3 * Digest(SubSeq(content, 1, Len(content) - 1)) + content[Len(content)]

Sha256Hex(content) == "sha" \o ToString(Digest(content))

(* ----------------------------------------------------- urls and paths *)

\* resource_url as it would be with format!("{base_url}/v{VERSION}/resources/{name}").
resource_url_with_separator(base_url, name) ==
    base_url \o "/v" \o VERSION \o "/resources/" \o name

\* resource_url: format!("{base_url}v{VERSION}/resources/{name}").
resource_url(base_url, name) == base_url \o "v" \o VERSION \o "/resources/" \o name

\* Path::join of a directory and a relative file name.
Join(dir, file) == dir \o "/" \o file

\* download_resources, the match on resource_type.
ResourcesDir(resource_type) ==
    IF resource_type = "fonts" THEN FONTS_DIR ELSE IMAGES_DIR

Hashes == {Sha256Hex(b) : b \in Bodies}

\* struct FileWithHash.
FileWithHash(names) == [file : names, hash : Hashes]

(* ------------------------------------------------------------------ state *)

VARIABLES
    mode,            \* the function called: check_resources_sync or _in_background
    caller,          \* whether that function has returned to its caller
    base_url_arg,    \* the argument of check_resources: None or a string
    download_fonts,  \* CONFIG.resource.download_fonts
    remote,          \* the manifest the server holds: [fonts, images]
    fs,              \* the file tree: the content of every path that exists
    unreadable,      \* the paths whose file File::open or a read fails on
    run,             \* the number of the current call of check_resources
    pc,              \* where check_resources is: fetch, check, spawn, await, returned
    fetched,         \* what fetch_resource_list met: [kind, status]
    resources,       \* the parsed manifest, or None
    resource_type,   \* the category download_resources works on
    idx,             \* the index of the loop download_resources is in
    to_download,     \* the stale entries of the category, in manifest order
    tasks,           \* per category, the spawned tasks in spawn order
    semaphore,       \* the free permits of the semaphore of each category that has one
    pb,              \* the progress bar [len, pos, finished] of each category that has one
    gets,            \* the bag of the URLs requested in this call
    hashed,          \* the paths is_file_hash_equal opened in this call
    dirs,            \* the paths whose parent directory this call created
    created,         \* the paths File::create opened in this call
    fs0,             \* the file tree when this call began
    prev_created,    \* the paths File::create opened in the call before this one
    prev_partial     \* the transfers of the call before this one that were interrupted

vars == <<mode, caller, base_url_arg, download_fonts, remote, fs, unreadable, run, pc, fetched,
          resources, resource_type, idx, to_download, tasks, semaphore, pb,
          gets, hashed, dirs, created, fs0, prev_created, prev_partial>>

env == <<mode, base_url_arg, download_fonts, remote, unreadable>>

\* check_resources, line 39: base_url.unwrap_or(CONFIG.resource.resource_url).
BaseUrl == IF base_url_arg = None THEN CONFIG_resource_url ELSE base_url_arg

PathOf(c, res) == Join(ResourcesDir(c), res.file)

UrlOf(c, res) == resource_url(BaseUrl, c \o "/" \o res.file)

ManifestUrl == resource_url(BaseUrl, "resources.json")

NoFetch == [kind |-> "none", status |-> 0]

\* The state of one call before its first step.
CallStart ==
    /\ pc = "fetch"
    /\ fetched = NoFetch
    /\ resources = None
    /\ resource_type = None
    /\ idx = 0
    /\ to_download = <<>>
    /\ tasks = [c \in Categories |-> <<>>]
    /\ semaphore = <<>>
    /\ pb = <<>>
    /\ gets = EmptyBag
    /\ hashed = {}
    /\ dirs = {}
    /\ created = {}

\* The paths a manifest names.
ManifestPaths(m) ==
    {PathOf("fonts", m.fonts[k]) : k \in 1..Len(m.fonts)}
    \cup {PathOf("images", m.images[k]) : k \in 1..Len(m.images)}

\* The local states of the files a manifest names: each is absent or holds
\* one of the bodies, and at most MaxUnreadable of them cannot be read.
InitFiles ==
    /\ \E present \in SUBSET ManifestPaths(remote) : fs \in [present -> Bodies]
    /\ unreadable \in SUBSET (DOMAIN fs)
    /\ Cardinality(unreadable) <= MaxUnreadable

\* The family of the image lists: no fonts, every images list within the
\* bound over two file names (a path may occur twice; the first entry names
\* the first file, the other lists being renamings of these), every local
\* state of the files.
InitImages ==
    /\ remote \in [fonts : {<<>>},
                   images : SeqUpTo(FileWithHash({ImageNames[1], ImageNames[2]}), MaxImages)]
    /\ remote.images # <<>> => remote.images[1].file = ImageNames[1]
    /\ InitFiles
    /\ download_fonts = TRUE
    /\ base_url_arg = None

\* The family of the two categories: a fonts list that is not empty, a shorter
\* images list, the font flag on and off, every argument base_url.
InitBoth ==
    /\ remote \in [fonts : SeqUpTo(FileWithHash({FontNames[1]}), MaxFonts) \ {<<>>},
                   images : SeqUpTo(FileWithHash({ImageNames[1]}), MaxImages - 1)]
    /\ InitFiles
    /\ download_fonts \in BOOLEAN
    /\ base_url_arg \in BaseUrlArgs

\* The family with more stale images than permits: Permits + 1 absent files.
InitBulk ==
    /\ remote = [fonts |-> <<>>,
                 images |-> [k \in 1..(Permits + 1) |->
                                [file |-> ImageNames[k], hash |-> Sha256Hex(<<1, 2>>)]]]
    /\ fs = <<>>
    /\ unreadable = {}
    /\ download_fonts = TRUE
    /\ base_url_arg = None

\* The state when the function m has just been called.
InitWith(m) ==
    /\ mode = m
    /\ caller = "called"
    /\ InitImages \/ InitBoth \/ InitBulk
    /\ run = 1
    /\ fs0 = fs
    /\ prev_created = {}
    /\ prev_partial = {}
    /\ CallStart

\* check_resources_sync has been called.
Init == InitWith("sync")

(* ------------------------------------------------------ check_resources *)

\* Entering download_resources(client, base_url, c, resources[c]).
EnterDownloadResources(c) ==
    /\ resource_type' = c
    /\ pc' = "check"
    /\ idx' = 1
    /\ to_download' = <<>>

\* ReturnFromDownloadResources as it would be were a failed download passed
\* up as an error that ends check_resources.
ReturnEndsOnFailure ==
    IF /\ resource_type = "fonts"
       /\ \A k \in 1..Len(tasks["fonts"]) : tasks["fonts"][k].outcome = "ok"
    THEN EnterDownloadResources("images")
    ELSE /\ pc' = "returned"
         /\ idx' = 0
         /\ to_download' = <<>>
         /\ UNCHANGED resource_type

\* download_resources returns to check_resources: after fonts come images
\* (line 49), after images check_resources returns.
ReturnFromDownloadResources ==
    IF resource_type = "fonts"
    THEN EnterDownloadResources("images")
    ELSE /\ pc' = "returned"
         /\ idx' = 0
         /\ to_download' = <<>>
         /\ UNCHANGED resource_type

\* StartCategories as it would be were CONFIG.resource.download_fonts not
\* looked at.
StartCategoriesWithFonts == EnterDownloadResources("fonts")

\* check_resources, lines 46-49, once fetch_resource_list gave Some(resources).
StartCategories ==
    IF download_fonts
    THEN EnterDownloadResources("fonts")
    ELSE EnterDownloadResources("images")

\* fetch_resource_list: client.get(url).send() fails; check_resources returns.
FetchTransportError ==
    /\ pc = "fetch"
    /\ gets' = gets (+) SetToBag({ManifestUrl})
    /\ fetched' = [kind |-> "transport_err", status |-> 0]
    /\ pc' = "returned"
    /\ UNCHANGED <<env, caller, prev_created, prev_partial, fs, run, resources, resource_type, idx, to_download, tasks,
                   semaphore, pb, hashed, dirs, created, fs0>>

\* FetchParseError as it would be were the parse error only logged and the
\* sync continued with the served lists.
FetchParseErrorContinues ==
    /\ pc = "fetch"
    /\ \E status \in Statuses :
          fetched' = [kind |-> "parse_err", status |-> status]
    /\ gets' = gets (+) SetToBag({ManifestUrl})
    /\ resources' = remote
    /\ StartCategories
    /\ UNCHANGED <<env, caller, prev_created, prev_partial, fs, run, tasks, semaphore, pb, hashed, dirs,
                   created, fs0>>

\* fetch_resource_list: a response arrives, with any status, and its body does
\* not parse as Resources; check_resources returns.
FetchParseError ==
    /\ pc = "fetch"
    /\ \E status \in Statuses :
          fetched' = [kind |-> "parse_err", status |-> status]
    /\ gets' = gets (+) SetToBag({ManifestUrl})
    /\ pc' = "returned"
    /\ UNCHANGED <<env, caller, prev_created, prev_partial, fs, run, resources, resource_type, idx, to_download, tasks,
                   semaphore, pb, hashed, dirs, created, fs0>>

\* fetch_resource_list: a response arrives and resp.json::<Resources>() parses
\* its body.  The status of the response is not looked at.
FetchParsed ==
    /\ pc = "fetch"
    /\ \E status \in Statuses :
          fetched' = [kind |-> "ok", status |-> status]
    /\ gets' = gets (+) SetToBag({ManifestUrl})
    /\ resources' = remote
    /\ StartCategories
    /\ UNCHANGED <<env, caller, prev_created, prev_partial, fs, run, tasks, semaphore, pb, hashed, dirs, created, fs0>>

(* --------------------------------------------------- download_resources *)

\* Path::exists on the file tree f.
FileExists(f, file_path) == file_path \in DOMAIN f

\* is_file_hash_equal as it would be were an open or read error taken for
\* "nothing to do" (true) instead of false.
is_file_hash_equal_or_unreadable(f, file_path, expected_hash) ==
    /\ FileExists(f, file_path)
    /\ \/ file_path \in unreadable
       \/ Sha256Hex(f[file_path]) = expected_hash

\* is_file_hash_equal(file_path, expected_hash) on the file tree f: false for
\* a file that does not exist (line 146), that File::open fails on (line 151)
\* or a read fails on (line 158), else whether the digests are equal.
is_file_hash_equal(f, file_path, expected_hash) ==
    /\ FileExists(f, file_path)
    /\ file_path \notin unreadable
    /\ Sha256Hex(f[file_path]) = expected_hash

\* IsStale as it would be were the digest not compared.
IsStaleIfMissing(f, c, res) == ~FileExists(f, PathOf(c, res))

\* IsStale as it would be with file_path.exists() in place of its negation.
IsStaleAlsoIfPresent(f, c, res) ==
    \/ FileExists(f, PathOf(c, res))
    \/ ~is_file_hash_equal(f, PathOf(c, res), res.hash)

\* Line 95: the entry goes to to_download.
IsStale(f, c, res) ==
    \/ ~FileExists(f, PathOf(c, res))
    \/ ~is_file_hash_equal(f, PathOf(c, res), res.hash)

\* One turn of the loop of lines 93-98.
CheckEntry ==
    /\ pc = "check"
    /\ idx <= Len(resources[resource_type])
    /\ LET res == resources[resource_type][idx]
           file_path == PathOf(resource_type, res)
       IN  /\ to_download' = IF IsStale(fs, resource_type, res)
                             THEN Append(to_download, res)
                             ELSE to_download
           /\ hashed' = IF FileExists(fs, file_path) /\ file_path \notin unreadable
                        THEN hashed \cup {file_path}
                        ELSE hashed
    /\ idx' = idx + 1
    /\ UNCHANGED <<env, caller, prev_created, prev_partial, fs, run, pc, fetched, resources, resource_type, tasks,
                   semaphore, pb, gets, dirs, created, fs0>>

\* Lines 99-102: nothing is stale, download_resources returns.
NothingToDownload ==
    /\ pc = "check"
    /\ idx > Len(resources[resource_type])
    /\ Len(to_download) = 0
    /\ ReturnFromDownloadResources
    /\ UNCHANGED <<env, caller, prev_created, prev_partial, fs, run, fetched, resources, tasks, semaphore, pb, gets,
                   hashed, dirs, created, fs0>>

\* StartDownload as it would be were the loop of lines 93-98 left at the
\* first stale entry.
StartDownloadAtFirstStale ==
    /\ pc = "check"
    /\ Len(to_download) > 0
    /\ pb' = (resource_type :> [len |-> Len(to_download), pos |-> 0, finished |-> FALSE])
             @@ pb
    /\ semaphore' = (resource_type :> Permits) @@ semaphore
    /\ pc' = "spawn"
    /\ idx' = 1
    /\ UNCHANGED <<env, caller, prev_created, prev_partial, fs, run, fetched, resources, resource_type,
                   to_download, tasks, gets, hashed, dirs, created, fs0>>

\* StartDownload as it would be with Semaphore::new(total_files) in place of
\* the fixed capacity.
StartDownloadPermitPerFile ==
    /\ pc = "check"
    /\ idx > Len(resources[resource_type])
    /\ Len(to_download) > 0
    /\ pb' = (resource_type :> [len |-> Len(to_download), pos |-> 0, finished |-> FALSE])
             @@ pb
    /\ semaphore' = (resource_type :> Len(to_download)) @@ semaphore
    /\ pc' = "spawn"
    /\ idx' = 1
    /\ UNCHANGED <<env, caller, prev_created, prev_partial, fs, run, fetched, resources, resource_type, to_download,
                   tasks, gets, hashed, dirs, created, fs0>>

\* Lines 104-117: the progress bar and the semaphore of this call of
\* download_resources (line 113: a new semaphore for each category).
StartDownload ==
    /\ pc = "check"
    /\ idx > Len(resources[resource_type])
    /\ Len(to_download) > 0
    /\ pb' = (resource_type :> [len |-> Len(to_download), pos |-> 0, finished |-> FALSE])
             @@ pb
    /\ semaphore' = (resource_type :> Permits) @@ semaphore
    /\ pc' = "spawn"
    /\ idx' = 1
    /\ UNCHANGED <<env, caller, prev_created, prev_partial, fs, run, fetched, resources, resource_type, to_download,
                   tasks, gets, hashed, dirs, created, fs0>>

\* NewTask as it would be were file_path computed once, before the loop, from
\* the first entry of to_download.
NewTaskWithFirstPath(c, resource) ==
    [file |-> resource.file, hash |-> resource.hash,
     path |-> PathOf(c, to_download[1]), url |-> UrlOf(c, resource),
     st |-> "acquire", outcome |-> "none", body |-> <<>>, pos |-> 0]

\* The task task::spawn creates for an entry: its URL and path (lines
\* 119-125), and where it is.  file and hash record the entry it was made for.
NewTask(c, resource) ==
    [file |-> resource.file, hash |-> resource.hash,
     path |-> PathOf(c, resource), url |-> UrlOf(c, resource),
     st |-> "acquire", outcome |-> "none", body |-> <<>>, pos |-> 0]

\* One turn of the loop of lines 118-134; after the last the loop of line 136
\* begins.
SpawnTask ==
    /\ pc = "spawn"
    /\ idx <= Len(to_download)
    /\ tasks' = [tasks EXCEPT ![resource_type] =
                    Append(@, NewTask(resource_type, to_download[idx]))]
    /\ IF idx = Len(to_download)
       THEN pc' = "await" /\ idx' = 1
       ELSE pc' = "spawn" /\ idx' = idx + 1
    /\ UNCHANGED <<env, caller, prev_created, prev_partial, fs, run, fetched, resources, resource_type, to_download,
                   semaphore, pb, gets, hashed, dirs, created, fs0>>

\* AwaitTask as it would be were the join handle dropped instead of awaited.
AwaitTaskWithoutJoin ==
    /\ pc = "await"
    /\ idx <= Len(tasks[resource_type])
    /\ idx' = idx + 1
    /\ UNCHANGED <<env, caller, prev_created, prev_partial, fs, run, pc, fetched, resources, resource_type,
                   to_download, tasks, semaphore, pb, gets, hashed, dirs, created, fs0>>

\* One turn of the loop of lines 136-140: task.await returns once the task
\* has ended.
AwaitTask ==
    /\ pc = "await"
    /\ idx <= Len(tasks[resource_type])
    /\ tasks[resource_type][idx].st = "done"
    /\ idx' = idx + 1
    /\ UNCHANGED <<env, caller, prev_created, prev_partial, fs, run, pc, fetched, resources, resource_type, to_download,
                   tasks, semaphore, pb, gets, hashed, dirs, created, fs0>>

\* Line 142, pb.finish(), and the return of download_resources.
FinishCategory ==
    /\ pc = "await"
    /\ idx > Len(tasks[resource_type])
    /\ pb' = [pb EXCEPT ![resource_type].finished = TRUE]
    /\ ReturnFromDownloadResources
    /\ UNCHANGED <<env, caller, prev_created, prev_partial, fs, run, fetched, resources, tasks, semaphore, gets,
                   hashed, dirs, created, fs0>>

(* ------------------------------------------------------ the spawned task *)

\* The places of tasks: a category spawns at most as many as its list is long.
TaskIds == {<<c, k>> : c \in Categories, k \in 1..Max(Max(MaxFonts, MaxImages), Permits + 1)}

Exists(c, k) == k <= Len(tasks[c])

\* Whether the task holds a permit: from semaphore.acquire (line 129) to
\* drop(permit) (line 132).
HoldsPermit(t) == t.st \in {"create_dir", "send", "file_create", "chunk"}

\* write_all of one byte through a handle whose offset is pos: a write beyond
\* the end leaves a hole of zero bytes.
WriteAt(content, pos, byte) ==
    [j \in 1..Max(Len(content), pos + 1) |->
        IF j = pos + 1 THEN byte
        ELSE IF j <= Len(content) THEN content[j]
        ELSE 0]

\* Acquire as it would be were the permit not waited for.
AcquireWithoutWaiting(c, k) ==
    /\ Exists(c, k)
    /\ tasks[c][k].st = "acquire"
    /\ semaphore' = [semaphore EXCEPT ![c] = @ - 1]
    /\ tasks' = [tasks EXCEPT ![c][k].st = "create_dir"]
    /\ UNCHANGED <<env, caller, prev_created, prev_partial, fs, run, pc, fetched, resources, resource_type, idx,
                   to_download, pb, gets, hashed, dirs, created, fs0>>

\* Line 129: the task gets a permit.
Acquire(c, k) ==
    /\ Exists(c, k)
    /\ tasks[c][k].st = "acquire"
    /\ semaphore[c] > 0
    /\ semaphore' = [semaphore EXCEPT ![c] = @ - 1]
    /\ tasks' = [tasks EXCEPT ![c][k].st = "create_dir"]
    /\ UNCHANGED <<env, caller, prev_created, prev_partial, fs, run, pc, fetched, resources, resource_type, idx,
                   to_download, pb, gets, hashed, dirs, created, fs0>>

\* TaskEnds as it would be were the tasks of the category aborted when one of
\* them fails.
TaskEndsAbortsSiblings(c, k, outcome) ==
    /\ tasks' = [tasks EXCEPT ![c] =
                    [j \in 1..Len(@) |->
                        IF j = k
                        THEN [@[j] EXCEPT !.st = "done", !.outcome = outcome, !.pos = 0,
                                          !.body = SubSeq(@, 1, tasks[c][k].pos)]
                        ELSE IF outcome # "ok" /\ @[j].st # "done"
                        THEN [@[j] EXCEPT !.st = "done", !.pos = 0, !.body = <<>>]
                        ELSE @[j]]]
    /\ pb' = [pb EXCEPT ![c].pos = @ + 1]
    /\ semaphore' = [semaphore EXCEPT ![c] = @ + 1]

\* TaskEnds as it would be were pb.inc(1) reached only when download_file
\* succeeded.
TaskEndsCountsSuccess(c, k, outcome) ==
    /\ tasks' = [tasks EXCEPT ![c][k] =
                    [@ EXCEPT !.st = "done", !.outcome = outcome, !.pos = 0,
                              !.body = SubSeq(@, 1, tasks[c][k].pos)]]
    /\ pb' = [pb EXCEPT ![c].pos = IF outcome = "ok" THEN @ + 1 ELSE @]
    /\ semaphore' = [semaphore EXCEPT ![c] = @ + 1]

\* TaskEnds as it would be were the permit kept (forgotten) instead of
\* dropped.
TaskEndsKeepsPermit(c, k, outcome) ==
    /\ tasks' = [tasks EXCEPT ![c][k] =
                    [@ EXCEPT !.st = "done", !.outcome = outcome, !.pos = 0,
                              !.body = SubSeq(@, 1, tasks[c][k].pos)]]
    /\ pb' = [pb EXCEPT ![c].pos = @ + 1]
    /\ UNCHANGED semaphore

\* Lines 130-133 after download_file has returned: pb.inc(1), drop(permit),
\* and the task ends.  The file handle and the response are dropped; the
\* record keeps in body the bytes the task has written: the whole body of a
\* download that ended well, the chunks written before a failure.
TaskEnds(c, k, outcome) ==
    /\ tasks' = [tasks EXCEPT ![c][k] =
                    [@ EXCEPT !.st = "done", !.outcome = outcome, !.pos = 0,
                              !.body = SubSeq(@, 1, tasks[c][k].pos)]]
    /\ pb' = [pb EXCEPT ![c].pos = @ + 1]
    /\ semaphore' = [semaphore EXCEPT ![c] = @ + 1]

\* download_file, lines 170-175: create_dir_all succeeds.
CreateDirAll(c, k) ==
    /\ Exists(c, k)
    /\ tasks[c][k].st = "create_dir"
    /\ dirs' = dirs \cup {tasks[c][k].path}
    /\ tasks' = [tasks EXCEPT ![c][k].st = "send"]
    /\ UNCHANGED <<env, caller, prev_created, prev_partial, fs, run, pc, fetched, resources, resource_type, idx,
                   to_download, semaphore, pb, gets, hashed, created, fs0>>

\* CreateDirFails as it would be were the return that of the task itself:
\* the permit is dropped, pb.inc(1) is not reached.
CreateDirFailsLeavesTask(c, k) ==
    /\ Exists(c, k)
    /\ tasks[c][k].st = "create_dir"
    /\ tasks' = [tasks EXCEPT ![c][k] =
                    [@ EXCEPT !.st = "done", !.outcome = "dir_err", !.pos = 0, !.body = <<>>]]
    /\ semaphore' = [semaphore EXCEPT ![c] = @ + 1]
    /\ UNCHANGED <<env, caller, prev_created, prev_partial, fs, run, pc, fetched, resources,
                   resource_type, idx, to_download, pb, gets, hashed, dirs, created, fs0>>

\* download_file, lines 171-174: create_dir_all fails, download_file returns.
CreateDirFails(c, k) ==
    /\ Exists(c, k)
    /\ tasks[c][k].st = "create_dir"
    /\ TaskEnds(c, k, "dir_err")
    /\ UNCHANGED <<env, caller, prev_created, prev_partial, fs, run, pc, fetched, resources, resource_type, idx,
                   to_download, gets, hashed, dirs, created, fs0>>

\* download_file, lines 177-183: the GET is answered with a success status;
\* body is what the response will deliver.
SendOk(c, k) ==
    /\ Exists(c, k)
    /\ tasks[c][k].st = "send"
    /\ gets' = gets (+) SetToBag({tasks[c][k].url})
    /\ \E body \in Bodies :
          tasks' = [tasks EXCEPT ![c][k] = [@ EXCEPT !.st = "file_create", !.body = body]]
    /\ UNCHANGED <<env, caller, prev_created, prev_partial, fs, run, pc, fetched, resources, resource_type, idx,
                   to_download, semaphore, pb, hashed, dirs, created, fs0>>

\* SendStatusError as it would be were the file created before the GET is
\* sent.
SendStatusErrorAfterCreate(c, k) ==
    /\ Exists(c, k)
    /\ tasks[c][k].st = "send"
    /\ \E status \in Statuses : ~IsSuccess(status)
    /\ gets' = gets (+) SetToBag({tasks[c][k].url})
    /\ fs' = (tasks[c][k].path :> <<>>) @@ fs
    /\ created' = created \cup {tasks[c][k].path}
    /\ TaskEnds(c, k, "status_err")
    /\ UNCHANGED <<env, caller, prev_created, prev_partial, run, pc, fetched, resources,
                   resource_type, idx, to_download, hashed, dirs, fs0>>

\* download_file, lines 179-182: the GET is answered with a non-success status.
SendStatusError(c, k) ==
    /\ Exists(c, k)
    /\ tasks[c][k].st = "send"
    /\ \E status \in Statuses : ~IsSuccess(status)
    /\ gets' = gets (+) SetToBag({tasks[c][k].url})
    /\ TaskEnds(c, k, "status_err")
    /\ UNCHANGED <<env, caller, prev_created, prev_partial, fs, run, pc, fetched, resources, resource_type, idx,
                   to_download, hashed, dirs, created, fs0>>

\* SendFails as it would be were a failed GET sent again.
SendFailsSendsAgain(c, k) ==
    /\ Exists(c, k)
    /\ tasks[c][k].st = "send"
    /\ gets' = gets (+) SetToBag({tasks[c][k].url})
    /\ UNCHANGED <<env, caller, prev_created, prev_partial, fs, run, pc, fetched, resources, resource_type,
                   idx, to_download, tasks, semaphore, pb, hashed, dirs, created, fs0>>

\* download_file, lines 185-188: the GET fails.
SendFails(c, k) ==
    /\ Exists(c, k)
    /\ tasks[c][k].st = "send"
    /\ gets' = gets (+) SetToBag({tasks[c][k].url})
    /\ TaskEnds(c, k, "get_err")
    /\ UNCHANGED <<env, caller, prev_created, prev_partial, fs, run, pc, fetched, resources, resource_type, idx,
                   to_download, hashed, dirs, created, fs0>>

\* FileCreate as it would be were the file opened for writing without being
\* truncated.
FileCreateWithoutTruncate(c, k) ==
    /\ Exists(c, k)
    /\ tasks[c][k].st = "file_create"
    /\ fs' = fs @@ (tasks[c][k].path :> <<>>)
    /\ created' = created \cup {tasks[c][k].path}
    /\ tasks' = [tasks EXCEPT ![c][k] = [@ EXCEPT !.st = "chunk", !.pos = 0]]
    /\ UNCHANGED <<env, caller, prev_created, prev_partial, run, pc, fetched, resources,
                   resource_type, idx, to_download, semaphore, pb, gets, hashed, dirs, fs0>>

\* download_file, lines 191-192: File::create creates the file or truncates
\* it; the handle's offset is 0.
FileCreate(c, k) ==
    /\ Exists(c, k)
    /\ tasks[c][k].st = "file_create"
    /\ fs' = (tasks[c][k].path :> <<>>) @@ fs
    /\ created' = created \cup {tasks[c][k].path}
    /\ tasks' = [tasks EXCEPT ![c][k] = [@ EXCEPT !.st = "chunk", !.pos = 0]]
    /\ UNCHANGED <<env, caller, prev_created, prev_partial, run, pc, fetched, resources, resource_type, idx,
                   to_download, semaphore, pb, gets, hashed, dirs, fs0>>

\* download_file, lines 193-196: File::create fails.
FileCreateFails(c, k) ==
    /\ Exists(c, k)
    /\ tasks[c][k].st = "file_create"
    /\ TaskEnds(c, k, "create_err")
    /\ UNCHANGED <<env, caller, prev_created, prev_partial, fs, run, pc, fetched, resources, resource_type, idx,
                   to_download, gets, hashed, dirs, created, fs0>>

\* download_file, lines 199-210: resp.chunk() gives the next chunk and
\* write_all writes it at the handle's offset.
ChunkWritten(c, k) ==
    /\ Exists(c, k)
    /\ tasks[c][k].st = "chunk"
    /\ tasks[c][k].pos < Len(tasks[c][k].body)
    /\ LET t == tasks[c][k]
       IN  fs' = [fs EXCEPT ![t.path] = WriteAt(@, t.pos, t.body[t.pos + 1])]
    /\ tasks' = [tasks EXCEPT ![c][k].pos = @ + 1]
    /\ UNCHANGED <<env, caller, prev_created, prev_partial, run, pc, fetched, resources, resource_type, idx,
                   to_download, semaphore, pb, gets, hashed, dirs, created, fs0>>

\* ChunkFails as it would be were the unfinished file removed on a failed
\* chunk.
ChunkFailsRemovesFile(c, k) ==
    /\ Exists(c, k)
    /\ tasks[c][k].st = "chunk"
    /\ TaskEnds(c, k, "chunk_err")
    /\ fs' = [p \in (DOMAIN fs) \ {tasks[c][k].path} |-> fs[p]]
    /\ UNCHANGED <<env, caller, prev_created, prev_partial, run, pc, fetched, resources,
                   resource_type, idx, to_download, gets, hashed, dirs, created, fs0>>

\* ChunkFails as it would be were the request sent again after a failed chunk.
ChunkFailsSendsAgain(c, k) ==
    /\ Exists(c, k)
    /\ tasks[c][k].st = "chunk"
    /\ tasks' = [tasks EXCEPT ![c][k] = [@ EXCEPT !.st = "send", !.pos = 0, !.body = <<>>]]
    /\ UNCHANGED <<env, caller, prev_created, prev_partial, fs, run, pc, fetched, resources, resource_type,
                   idx, to_download, semaphore, pb, gets, hashed, dirs, created, fs0>>

\* download_file, lines 200-204: resp.chunk() fails, after any number of chunks.
ChunkFails(c, k) ==
    /\ Exists(c, k)
    /\ tasks[c][k].st = "chunk"
    /\ TaskEnds(c, k, "chunk_err")
    /\ UNCHANGED <<env, caller, prev_created, prev_partial, fs, run, pc, fetched, resources, resource_type, idx,
                   to_download, gets, hashed, dirs, created, fs0>>

\* download_file, lines 206-209: write_all of the next chunk fails.
WriteFails(c, k) ==
    /\ Exists(c, k)
    /\ tasks[c][k].st = "chunk"
    /\ tasks[c][k].pos < Len(tasks[c][k].body)
    /\ TaskEnds(c, k, "write_err")
    /\ UNCHANGED <<env, caller, prev_created, prev_partial, fs, run, pc, fetched, resources, resource_type, idx,
                   to_download, gets, hashed, dirs, created, fs0>>

\* download_file, line 199: resp.chunk() gives None, the loop and
\* download_file end.
BodyEnds(c, k) ==
    /\ Exists(c, k)
    /\ tasks[c][k].st = "chunk"
    /\ tasks[c][k].pos = Len(tasks[c][k].body)
    /\ TaskEnds(c, k, "ok")
    /\ UNCHANGED <<env, caller, prev_created, prev_partial, fs, run, pc, fetched, resources, resource_type, idx,
                   to_download, gets, hashed, dirs, created, fs0>>

(* ------------------------------------------------------------ the caller *)

\* The transfers of this call that were interrupted (download_file returned
\* at line 203 or 208) after some chunks were written: the entry, the bytes
\* written, and whether another task of the call had the same path.
PartialTransfers ==
    UNION {{[category |-> c, file |-> tasks[c][k].file, hash |-> tasks[c][k].hash,
             written |-> tasks[c][k].body,
             shared |-> \E j \in 1..Len(tasks[c]) :
                           j # k /\ tasks[c][j].path = tasks[c][k].path]
               : k \in {j \in 1..Len(tasks[c]) :
                           /\ tasks[c][j].outcome \in {"chunk_err", "write_err"}
                           /\ tasks[c][j].body # <<>>}}
             : c \in Categories}

\* check_resources is called again, with the same argument, the same
\* configuration and the same manifest on the server; nothing else touched
\* the files in between.
CallAgain ==
    /\ mode = "sync"
    /\ caller = "returned"
    /\ caller' = "called"
    /\ pc = "returned"
    /\ run < MaxRuns
    /\ run' = run + 1
    /\ fs0' = fs
    /\ pc' = "fetch"
    /\ fetched' = NoFetch
    /\ resources' = None
    /\ resource_type' = None
    /\ idx' = 0
    /\ to_download' = <<>>
    /\ tasks' = [c \in Categories |-> <<>>]
    /\ semaphore' = <<>>
    /\ pb' = <<>>
    /\ gets' = EmptyBag
    /\ hashed' = {}
    /\ dirs' = {}
    /\ created' = {}
    /\ prev_created' = created
    /\ prev_partial' = PartialTransfers
    /\ UNCHANGED <<env, fs>>

\* SyncReturn as it would be were the sync run detached, as in
\* check_resources_in_background.
SyncReturnDetached ==
    /\ mode = "sync"
    /\ caller = "called"
    /\ caller' = "returned"
    /\ UNCHANGED <<env, prev_created, prev_partial, fs, run, pc, fetched, resources, resource_type, idx,
                   to_download, tasks, semaphore, pb, gets, hashed, dirs, created, fs0>>

\* check_resources_sync, line 53: block_on returns when check_resources has
\* returned, and check_resources_sync returns to its caller.
SyncReturn ==
    /\ mode = "sync"
    /\ caller = "called"
    /\ pc = "returned"
    /\ caller' = "returned"
    /\ UNCHANGED <<env, prev_created, prev_partial, fs, run, pc, fetched, resources, resource_type, idx,
                   to_download, tasks, semaphore, pb, gets, hashed, dirs, created, fs0>>

\* check_resources_in_background, lines 57-60: thread::spawn has started the
\* thread that runs the sync; its JoinHandle is dropped and the function
\* returns (), whatever the thread has done by then.
BackgroundReturn ==
    /\ mode = "background"
    /\ caller = "called"
    /\ caller' = "returned"
    /\ UNCHANGED <<env, prev_created, prev_partial, fs, run, pc, fetched, resources, resource_type, idx,
                   to_download, tasks, semaphore, pb, gets, hashed, dirs, created, fs0>>

TaskStep(c, k) ==
    \/ Acquire(c, k)
    \/ CreateDirAll(c, k)
    \/ CreateDirFails(c, k)
    \/ SendOk(c, k)
    \/ SendStatusError(c, k)
    \/ SendFails(c, k)
    \/ FileCreate(c, k)
    \/ FileCreateFails(c, k)
    \/ ChunkWritten(c, k)
    \/ ChunkFails(c, k)
    \/ WriteFails(c, k)
    \/ BodyEnds(c, k)

MainStep ==
    \/ FetchTransportError
    \/ FetchParseError
    \/ FetchParsed
    \/ CheckEntry
    \/ NothingToDownload
    \/ StartDownload
    \/ SpawnTask
    \/ AwaitTask
    \/ FinishCategory

\* One call of check_resources.
Next ==
    \/ MainStep
    \/ \E t \in TaskIds : TaskStep(t[1], t[2])
    \/ SyncReturn

Spec == Init /\ [][Next]_vars

\* One call of check_resources on more stale images than permits, under the
\* scheduling of the runtime: check_resources and every spawned task, whenever
\* they can take a step (an operation returns, a permit is free), eventually
\* take one.
InitFair == Init /\ Len(remote["images"]) > Permits

FairSpec ==
    /\ InitFair
    /\ [][Next]_vars
    /\ WF_vars(MainStep)
    /\ \A t \in TaskIds : WF_vars(TaskStep(t[1], t[2]))

\* Calls of check_resources one after another, from the initial states of the
\* two categories and those whose image entries all name one path.
NextTwice ==
    \/ MainStep
    \/ \E t \in TaskIds : TaskStep(t[1], t[2])
    \/ SyncReturn
    \/ CallAgain

InitTwice ==
    /\ Init
    /\ base_url_arg = None
    /\ \/ Len(remote.images) < MaxImages
       \/ \A i \in 1..Len(remote.images) : remote.images[i].file = ImageNames[1]

SpecTwice == InitTwice /\ [][NextTwice]_vars

\* One call of either function, check_resources_sync or
\* check_resources_in_background, from the initial states of the two
\* categories.
NextModes ==
    \/ MainStep
    \/ \E t \in TaskIds : TaskStep(t[1], t[2])
    \/ SyncReturn
    \/ BackgroundReturn

InitModes ==
    /\ InitWith("sync") \/ InitWith("background")
    /\ Len(remote.images) < MaxImages

SpecModes == InitModes /\ [][NextModes]_vars

(* ------------------------------------------------------------- claims *)

\* The tasks of category c that hold a permit.
Holders(c) == {k \in 1..Len(tasks[c]) : HoldsPermit(tasks[c][k])}

HeldPermits == Cardinality(Holders("fonts")) + Cardinality(Holders("images"))

Waiting(c) == {k \in 1..Len(tasks[c]) : tasks[c][k].st = "acquire"}

\* C1: in every state of a call of check_resources, the download tasks that
\* have passed semaphore.acquire and not yet dropped their permit, counted
\* over both categories, are at most Permits, also when a category has more
\* stale entries than permits.
C1_PermitCap == HeldPermits <= Permits

\* C1, its case: a category with more tasks than permits, every permit held
\* and a task waiting for one.
C1_Witness ==
    \E c \in Categories :
        /\ Len(tasks[c]) > Permits
        /\ Cardinality(Holders(c)) = Permits
        /\ Waiting(c) # {}

\* The categories check_resources works on (lines 46-49).
Processed(c) == c = "images" \/ download_fonts

\* An entry is stale on the file tree f: its file is missing, cannot be read,
\* or has another digest than the manifest's.
ClaimStale(f, c, res) ==
    LET p == PathOf(c, res)
    IN  \/ p \notin DOMAIN f
        \/ p \in unreadable
        \/ Sha256Hex(f[p]) # res.hash

\* The stale entries of category c when the call began, in manifest order.
StaleEntries(c) == SelectSeq(remote[c], LAMBDA res : ClaimStale(fs0, c, res))

\* The entries the tasks of category c were spawned for, in spawn order.
Dispatched(c) ==
    [k \in 1..Len(tasks[c]) |-> [file |-> tasks[c][k].file, hash |-> tasks[c][k].hash]]

\* Nothing was done for the entry: no GET of its URL, no File::create of its
\* path, and its file is as it was when the call began.
Untouched(c, res) ==
    /\ ~BagIn(UrlOf(c, res), gets)
    /\ PathOf(c, res) \notin created
    /\ PathOf(c, res) \in DOMAIN fs
    /\ fs[PathOf(c, res)] = fs0[PathOf(c, res)]

\* The entry's path is also the path of a stale entry of its category.
SharesPathWithStale(c, res) ==
    \E j \in 1..Len(remote[c]) :
        /\ remote[c][j].file = res.file
        /\ ClaimStale(fs0, c, remote[c][j])

\* C2 as stated: when a call has returned after fetching a manifest with N
\* entries of which M were stale, it has spawned M tasks, and every current
\* entry is untouched.
C2_Original ==
    (pc = "returned" /\ fetched.kind = "ok") =>
        /\ Len(tasks["fonts"]) + Len(tasks["images"])
             = Len(StaleEntries("fonts")) + Len(StaleEntries("images"))
        /\ \A c \in Categories : \A i \in 1..Len(remote[c]) :
              ~ClaimStale(fs0, c, remote[c][i]) => Untouched(c, remote[c][i])

\* C2 amended: when a call has returned after fetching the manifest, the tasks
\* it spawned are, per category it works on (images, and fonts when
\* download_fonts is set), exactly the entries stale when it began, one task
\* per entry, and none for a category it does not work on; and in every state
\* a current entry whose path no stale entry of its category shares is
\* untouched.
C2_Amended ==
    /\ (pc = "returned" /\ fetched.kind = "ok") =>
          \A c \in Categories :
              Dispatched(c) = IF Processed(c) THEN StaleEntries(c) ELSE <<>>
    /\ \A c \in Categories : \A i \in 1..Len(remote[c]) :
          (~ClaimStale(fs0, c, remote[c][i]) /\ ~SharesPathWithStale(c, remote[c][i]))
              => Untouched(c, remote[c][i])

\* C2, its case: a returned call on a category with a stale entry, whose
\* download ended well, and a current entry.
C2_Witness ==
    /\ pc = "returned"
    /\ fetched.kind = "ok"
    /\ \E c \in Categories :
          /\ Len(tasks[c]) > 0
          /\ Len(remote[c]) > Len(tasks[c])
          /\ \E k \in 1..Len(tasks[c]) : tasks[c][k].outcome = "ok"
          /\ \E i \in 1..Len(remote[c]) :
                ~ClaimStale(fs0, c, remote[c][i]) /\ ~SharesPathWithStale(c, remote[c][i])

\* The tasks of the call, as <<category, index>>.
AllTasks == UNION {{<<c, k>> : k \in 1..Len(tasks[c])} : c \in Categories}

NoTask == \A c \in Categories : tasks[c] = <<>>

\* The only URL requested is the manifest's.
NoAssetGet == \A u \in DOMAIN gets : u = ManifestUrl

\* C3 as stated: when check_resources has returned, the file of every task
\* that ended without a logged failure has the digest the manifest gives for
\* its entry, whatever bytes were served.
C3_Original ==
    pc = "returned" =>
        \A t \in AllTasks :
            LET task == tasks[t[1]][t[2]]
            IN  task.outcome = "ok" =>
                    /\ task.path \in DOMAIN fs
                    /\ Sha256Hex(fs[task.path]) = task.hash

\* C5 as stated: after a manifest response with a non-success status, whatever
\* its body, the call creates no task and creates and writes no file.
C5_Original ==
    (fetched.kind \in {"ok", "parse_err"} /\ ~IsSuccess(fetched.status)) =>
        /\ NoTask
        /\ created = {}
        /\ fs = fs0

\* C6: after a manifest GET that failed in transport, or whose body did not
\* parse, no category is worked on: no file was hashed, no directory or file
\* created, nothing written, no asset requested, no task spawned, and
\* check_resources has returned.
C6_NoEffects ==
    fetched.kind \in {"transport_err", "parse_err"} =>
        /\ pc = "returned"
        /\ hashed = {}
        /\ dirs = {}
        /\ created = {}
        /\ fs = fs0
        /\ NoTask
        /\ NoAssetGet
        /\ DOMAIN semaphore = {}

\* C6, its case: the body did not parse while the manifest on the server names
\* a stale entry of a category the call would work on.
C6_Witness ==
    /\ fetched.kind = "parse_err"
    /\ pc = "returned"
    /\ \E c \in Categories :
          /\ Processed(c)
          /\ Len(StaleEntries(c)) > 0

\* No entry of a category the call works on was stale when the call began.
AllCurrentAtStart == \A c \in Categories : Processed(c) => StaleEntries(c) = <<>>

\* C4 as stated: a second call, with the manifest and the files as the first
\* call left them, spawns no task and requests no asset.
C4_Original == run >= 2 => (NoTask /\ NoAssetGet)

\* C4 amended: a second call that finds every entry of the categories it
\* works on current, as the first call left the files, spawns no task,
\* requests no asset and changes no file.
C4_Amended ==
    (run >= 2 /\ AllCurrentAtStart) => (NoTask /\ NoAssetGet /\ fs = fs0 /\ created = {})

\* C4, its case: the first call created a file, and the second call, finding
\* every entry of a manifest that is not empty current, has returned.
C4_Witness ==
    /\ run = 2
    /\ pc = "returned"
    /\ fetched.kind = "ok"
    /\ prev_created # {}
    /\ AllCurrentAtStart
    /\ \E c \in Categories : Processed(c) /\ remote[c] # <<>>

TaskOf(t) == tasks[t[1]][t[2]]

\* No other task of the call has the task's path.
OwnPath(t) == \A u \in AllTasks : u # t => TaskOf(u).path # TaskOf(t).path

\* Every spawned task has ended with an outcome of its own.
AllEnded == \A t \in AllTasks : TaskOf(t).st = "done" /\ TaskOf(t).outcome # "none"

\* No URL was requested more often than there are tasks for it.
NoRerun ==
    \A u \in DOMAIN gets :
        u # ManifestUrl =>
            CopiesIn(u, gets) <= Cardinality({t \in AllTasks : TaskOf(t).url = u})

\* C7 as stated: when check_resources has returned, every spawned task has run
\* to its own outcome, whatever its siblings met, and none was run again; a
\* file that was absent and whose GET was answered with a non-success status
\* is still absent; and every file whose transfer succeeded holds the whole
\* body served.
C7_Original ==
    pc = "returned" =>
        /\ AllEnded
        /\ NoRerun
        /\ \A t \in AllTasks :
              (TaskOf(t).outcome = "status_err" /\ TaskOf(t).path \notin DOMAIN fs0)
                  => TaskOf(t).path \notin DOMAIN fs
        /\ \A t \in AllTasks :
              TaskOf(t).outcome = "ok"
                  => (TaskOf(t).path \in DOMAIN fs /\ fs[TaskOf(t).path] = TaskOf(t).body)

\* C7 amended: as stated, the last two parts for the files that no other task
\* of the call writes to (no other stale entry names the same path).
C7_Amended ==
    pc = "returned" =>
        /\ AllEnded
        /\ NoRerun
        /\ \A t \in AllTasks :
              (OwnPath(t) /\ TaskOf(t).outcome = "status_err"
                          /\ TaskOf(t).path \notin DOMAIN fs0)
                  => TaskOf(t).path \notin DOMAIN fs
        /\ \A t \in AllTasks :
              (OwnPath(t) /\ TaskOf(t).outcome = "ok")
                  => (TaskOf(t).path \in DOMAIN fs /\ fs[TaskOf(t).path] = TaskOf(t).body)

\* C7, its case: of two tasks of one category with different paths, one met a
\* non-success status for a file that was absent, the other's transfer
\* succeeded.
C7_Witness ==
    /\ pc = "returned"
    /\ \E t \in AllTasks : \E u \in AllTasks :
          /\ t[1] = u[1]
          /\ OwnPath(t)
          /\ OwnPath(u)
          /\ TaskOf(t).outcome = "status_err"
          /\ TaskOf(t).path \notin DOMAIN fs0
          /\ TaskOf(u).outcome = "ok"

\* The path is the path of an entry of the manifest's images list.
IsImagePath(p) == \E i \in 1..Len(remote["images"]) : p = PathOf("images", remote["images"][i])

\* C8: whatever the font tasks meet, the images are worked on as if the fonts
\* had all succeeded: while the fonts are worked on no image file changes and
\* no image task exists, and when check_resources has returned after fetching
\* the manifest, the image tasks are exactly those for the images stale when
\* the call began, each run to its outcome.
C8_FontsIsolated ==
    /\ resource_type = "fonts" =>
          /\ tasks["images"] = <<>>
          /\ \A p \in (DOMAIN fs) \cup (DOMAIN fs0) :
                IsImagePath(p) => (p \in DOMAIN fs /\ p \in DOMAIN fs0 /\ fs[p] = fs0[p])
    /\ (pc = "returned" /\ fetched.kind = "ok") =>
          /\ Dispatched("images") = StaleEntries("images")
          /\ \A k \in 1..Len(tasks["images"]) :
                tasks["images"][k].st = "done" /\ tasks["images"][k].outcome # "none"

\* C8, its case: every font task failed, and an image task's transfer
\* succeeded.
C8_Witness ==
    /\ pc = "returned"
    /\ tasks["fonts"] # <<>>
    /\ \A k \in 1..Len(tasks["fonts"]) : tasks["fonts"][k].outcome \notin {"ok", "none"}
    /\ \E k \in 1..Len(tasks["images"]) : tasks["images"][k].outcome = "ok"

\* C9: when check_resources has returned, every task it spawned, of either
\* category, has ended: none is waiting for a permit, none holds one, and
\* every semaphore has all its permits; and the images are not begun before
\* every font task has ended.
C9_AllEndedAtReturn ==
    /\ pc = "returned" =>
          /\ \A t \in AllTasks : TaskOf(t).st = "done"
          /\ HeldPermits = 0
          /\ \A c \in DOMAIN semaphore : semaphore[c] = Permits
    /\ resource_type = "images" =>
          \A k \in 1..Len(tasks["fonts"]) : tasks["fonts"][k].st = "done"

\* C9, its case: check_resources has returned after spawning tasks in both
\* categories.
C9_Witness ==
    /\ pc = "returned"
    /\ tasks["fonts"] # <<>>
    /\ tasks["images"] # <<>>

\* C10: under fair scheduling, with every operation returning, every spawned
\* task eventually ends, also when the stale entries outnumber the permits,
\* and check_resources eventually returns.
C10_AllEventuallyDone ==
    /\ \A t \in TaskIds :
          Exists(t[1], t[2]) ~> (Exists(t[1], t[2]) /\ tasks[t[1]][t[2]].st = "done")
    /\ <>(pc = "returned")

\* C10, its case: more tasks than permits, all ended, and check_resources
\* returned.
C10_Witness ==
    /\ pc = "returned"
    /\ \E c \in Categories :
          /\ Len(tasks[c]) > Permits
          /\ \A k \in 1..Len(tasks[c]) : tasks[c][k].st = "done"

\* The entries of the category download_resources works on that the loop of
\* lines 93-98 has looked at.
Checked ==
    SubSeq(resources[resource_type], 1,
           IF pc = "check" THEN idx - 1 ELSE Len(resources[resource_type]))

\* C11: the staleness check fails open.  Of the entries download_resources
\* has looked at, those in to_download are exactly the ones whose file was
\* absent, could not be opened or read, or had another digest than the
\* manifest's; an entry is left out only if its file exists, is readable and
\* has the manifest's digest.
C11_FailOpen ==
    pc \in {"check", "spawn", "await"} =>
        to_download = SelectSeq(Checked, LAMBDA res : ClaimStale(fs0, resource_type, res))

\* C11, its case: the check of a category is over; an entry whose file holds
\* the bytes of the manifest's digest but cannot be read is in to_download,
\* and an entry whose file is readable with the manifest's digest is not.
C11_Witness ==
    /\ pc = "spawn"
    /\ \E i \in 1..Len(to_download) :
          LET p == PathOf(resource_type, to_download[i])
          IN  /\ p \in DOMAIN fs0
              /\ p \in unreadable
              /\ Sha256Hex(fs0[p]) = to_download[i].hash
    /\ \E i \in 1..Len(Checked) :
          /\ ~ClaimStale(fs0, resource_type, Checked[i])
          /\ \A j \in 1..Len(to_download) : to_download[j] # Checked[i]

\* The semaphore a task draws its permit from: the one made (line 113) by the
\* call of download_resources that spawned it, one per category.
PoolOf(t) == t[1]

\* C12 as stated: all the tasks of one call of check_resources, fonts and
\* images alike, draw their permits from one and the same pool: the call
\* makes one semaphore.
C12_Original ==
    /\ Cardinality(DOMAIN semaphore) <= 1
    /\ \A t \in AllTasks : \A u \in AllTasks : PoolOf(t) = PoolOf(u)

\* C12 amended: every category that has tasks has a pool of Permits permits
\* of its own, from which its tasks and only they draw (the free permits of
\* the pool and the permits its tasks hold add up to Permits); and the two
\* pools are never drawn from at the same time: while an image task exists,
\* no font task holds or waits for a permit and the fonts' pool is full.
C12_Amended ==
    /\ \A c \in Categories : tasks[c] # <<>> => c \in DOMAIN semaphore
    /\ \A c \in DOMAIN semaphore :
          semaphore[c] + Cardinality(Holders(c)) = Permits
    /\ tasks["images"] # <<>> =>
          /\ Holders("fonts") = {}
          /\ Waiting("fonts") = {}
          /\ "fonts" \in DOMAIN semaphore => semaphore["fonts"] = Permits

\* C12, its case: both categories had stale entries; an image task holds a
\* permit of the images' pool while the fonts' pool, used before, is full.
C12_Witness ==
    /\ DOMAIN semaphore = Categories
    /\ Holders("images") # {}
    /\ semaphore["images"] < Permits
    /\ semaphore["fonts"] = Permits

\* The whole sync is over: check_resources has returned and every task it
\* spawned has ended.
SyncCompleted == pc = "returned" /\ \A t \in AllTasks : TaskOf(t).st = "done"

\* C13: check_resources_sync has not returned to its caller in any state in
\* which the sync, from the manifest fetch to the last download task, is not
\* over; check_resources_in_background can return to its caller in every
\* state, whatever step the sync is at, and returns nothing by which the
\* caller could tell (caller only ever changes by the return itself).
C13_SyncBlocksBackgroundDoesNot ==
    /\ (mode = "sync" /\ caller = "returned") => SyncCompleted
    /\ (mode = "background" /\ caller = "called") => ENABLED BackgroundReturn
    /\ caller \in {"called", "returned"}

\* C13, its case: check_resources_sync has returned after a sync that
\* downloaded in both categories.
C13_Witness ==
    /\ mode = "sync"
    /\ caller = "returned"
    /\ tasks["fonts"] # <<>>
    /\ tasks["images"] # <<>>

\* C13, the other case: check_resources_in_background has returned while
\* the manifest is not yet fetched, and while a task holds a permit.
C13_ReturnedBeforeFetch == mode = "background" /\ caller = "returned" /\ pc = "fetch"

C13_ReturnedInFlight == mode = "background" /\ caller = "returned" /\ HeldPermits > 0

\* The URLs requested for the manifest and for the entries of the manifest
\* when the text sep stands between base_url and "v".
LayoutUrls(sep) ==
    LET root == BaseUrl \o sep \o "v" \o VERSION \o "/resources/"
    IN  {root \o "resources.json"}
        \cup UNION {{root \o c \o "/" \o remote[c][i].file : i \in 1..Len(remote[c])}
                      : c \in Categories}

\* Every request of the call went to a URL of the layout, the manifest's once
\* the fetch is made, and every task has the layout's URL of its file.
RequestsFollow(sep) ==
    /\ \A u \in DOMAIN gets : u \in LayoutUrls(sep)
    /\ fetched.kind # "none" =>
          BagIn(BaseUrl \o sep \o "v" \o VERSION \o "/resources/resources.json", gets)
    /\ \A t \in AllTasks :
          TaskOf(t).url = BaseUrl \o sep \o "v" \o VERSION \o "/resources/"
                                  \o t[1] \o "/" \o TaskOf(t).file

\* C14 as stated: for every base_url the manifest is requested at base_url,
\* "/v", the version, "/resources/resources.json", and each asset at
\* base_url, "/v", the version, "/resources/", the category, "/", the file.
C14_Original == RequestsFollow("/")

\* C14 amended: the same with "v" directly after base_url: resource_url
\* puts no separator between base_url and "v{version}".
C14_Amended == RequestsFollow("")

\* C14, its case: the caller gave a base_url that does not end with "/", and
\* the manifest and an asset have been requested.
C14_Witness ==
    /\ base_url_arg = "https://mirror"
    /\ BagIn("https://mirrorv1/resources/resources.json", gets)
    /\ \E c \in Categories : \E k \in 1..Len(tasks[c]) : BagIn(tasks[c][k].url, gets)

\* How far a task is: Pending (acquire), InFlight (create_dir .. chunk), Done.
Rank(st) ==
    CASE st = "acquire" -> 0
      [] st = "create_dir" -> 1
      [] st = "send" -> 2
      [] st = "file_create" -> 3
      [] st = "chunk" -> 4
      [] st = "done" -> 5

\* The copies of the URL u among the requests grew in the step.
Requested(u) == CopiesIn(u, gets') > CopiesIn(u, gets)

\* The step created the parent directory of p, created p or wrote to p.
Effect(p) ==
    \/ p \in dirs' \ dirs
    \/ p \in created' \ created
    \/ (p \in DOMAIN fs') # (p \in DOMAIN fs)
    \/ p \in DOMAIN fs /\ p \in DOMAIN fs' /\ fs'[p] # fs[p]

\* What a step does to the task k of category c.
ForwardStep(c, k) ==
    LET t == tasks[c][k]
        u == tasks'[c][k]
    IN  /\ k <= Len(tasks'[c])
        /\ Rank(u.st) >= Rank(t.st)
        /\ t.st = "done" => u = t
        /\ (t.st = "acquire" /\ u.st # "acquire") =>
              u.st = "create_dir" /\ semaphore'[c] = semaphore[c] - 1
        /\ (t.st # "done" /\ u.st = "done") =>
              /\ Rank(t.st) \in 1..4
              /\ u.outcome # "none"
              /\ semaphore'[c] = semaphore[c] + 1

\* C15: in every step of a call, every task stays or moves forward through
\* acquire (Pending), create_dir, send, file_create, chunk (InFlight) and
\* done; it takes a permit when it leaves acquire and gives one back, once,
\* in the step in which download_file returns, whatever the outcome; a task
\* that is done never changes again; and a directory creation, an asset GET,
\* a file creation or a write happens only in a step of a task for that path
\* or URL that is InFlight, its semaphore short of a permit.
C15_ForwardOnly ==
    [][/\ \A c \in Categories : \A k \in 1..Len(tasks[c]) : ForwardStep(c, k)
       /\ \A c \in DOMAIN semaphore :
             semaphore'[c] - semaphore[c]
                = Cardinality({k \in 1..Len(tasks[c]) :
                                  tasks[c][k].st # "done" /\ tasks'[c][k].st = "done"})
                  - Cardinality({k \in 1..Len(tasks[c]) :
                                  tasks[c][k].st = "acquire" /\ tasks'[c][k].st # "acquire"})
       /\ \A p \in ManifestPaths(remote) :
             Effect(p) =>
                \E t \in AllTasks :
                    /\ TaskOf(t).path = p
                    /\ Rank(TaskOf(t).st) \in 1..4
                    /\ semaphore[t[1]] < Permits
                    /\ tasks'[t[1]][t[2]] # TaskOf(t)
       /\ \A u \in DOMAIN gets' :
             (u # ManifestUrl /\ Requested(u)) =>
                \E t \in AllTasks :
                    /\ TaskOf(t).url = u
                    /\ Rank(TaskOf(t).st) \in 1..4
                    /\ semaphore[t[1]] < Permits
                    /\ tasks'[t[1]][t[2]] # TaskOf(t)
      ]_vars

\* C15, its case: of the tasks of a category one has ended well and given
\* its permit back, one has ended on a failure after writing and given its
\* permit back, and one is InFlight.
C15_Witness ==
    \E c \in Categories :
        /\ \E k \in 1..Len(tasks[c]) : tasks[c][k].outcome = "ok"
        /\ \E k \in 1..Len(tasks[c]) : tasks[c][k].outcome = "chunk_err"
        /\ \E k \in 1..Len(tasks[c]) : tasks[c][k].st = "chunk"
        /\ semaphore[c] = Permits - 1

\* Something was done for the images: a file of theirs hashed, a task spawned.
ImagesBegun == tasks["images"] # <<>> \/ \E p \in hashed : IsImagePath(p)

\* Every entry of category c has been looked at: each file that could be
\* hashed has been, and the tasks so far are for the first stale entries.
ChecksOver(c) ==
    /\ \A i \in 1..Len(remote[c]) :
          LET p == PathOf(c, remote[c][i])
          IN  (p \in DOMAIN fs0 /\ p \notin unreadable) => p \in hashed
    /\ Len(tasks[c]) <= Len(StaleEntries(c))
    /\ Dispatched(c) = SubSeq(StaleEntries(c), 1, Len(tasks[c]))
    /\ c = resource_type =>
          /\ pc \in {"spawn", "await", "returned"}
          /\ pc # "returned" => to_download = StaleEntries(c)

\* C16: the categories are worked on one after the other, fonts first: once
\* an image file is hashed or an image task exists, the fonts are over (when
\* they are synced at all, every stale font has its task) and every font
\* task has ended; and in a category a task exists only when every entry of
\* the category has been checked, and no entry is checked while one exists.
C16_OneAfterAnother ==
    /\ ImagesBegun =>
          /\ resource_type = "images"
          /\ \A k \in 1..Len(tasks["fonts"]) : tasks["fonts"][k].st = "done"
          /\ download_fonts => Dispatched("fonts") = StaleEntries("fonts")
    /\ \A c \in Categories : tasks[c] # <<>> => ChecksOver(c)
    /\ pc = "check" => tasks[resource_type] = <<>>

\* C16, its case: a font task has ended on a failure, and an image task is in
\* flight after the hashing of an image file.
C16_Witness ==
    /\ \E k \in 1..Len(tasks["fonts"]) : tasks["fonts"][k].outcome \notin {"ok", "none"}
    /\ \E k \in 1..Len(tasks["images"]) : HoldsPermit(tasks["images"][k])
    /\ \E p \in hashed : IsImagePath(p)

\* C16, the case within a category: a category of two entries, the second
\* stale, whose first task is spawned.
C16_SecondStale ==
    \E c \in Categories :
        /\ Len(remote[c]) = 2
        /\ ~ClaimStale(fs0, c, remote[c][1])
        /\ tasks[c] # <<>>

\* The tasks of category c that have ended.
Ended(c) == {k \in 1..Len(tasks[c]) : tasks[c][k].st = "done"}

\* download_resources has returned for category c.
CategoryOver(c) ==
    /\ Processed(c)
    /\ \/ pc = "returned" /\ fetched.kind = "ok"
       \/ c = "fonts" /\ resource_type = "images"

\* C17: a category has its progress bar before it has a task; the bar's
\* total is the number of the category's stale entries; its position is the
\* number of the category's tasks that have ended, however they ended, so at
\* most the total; and when download_resources is over for the category the
\* position is the total (a category without stale entries has no bar).
C17_Progress ==
    /\ \A c \in Categories : tasks[c] # <<>> => c \in DOMAIN pb
    /\ \A c \in DOMAIN pb :
          /\ pb[c].len = Len(StaleEntries(c))
          /\ pb[c].len > 0
          /\ pb[c].pos = Cardinality(Ended(c))
          /\ pb[c].pos <= pb[c].len
          /\ pb[c].finished => pb[c].pos = pb[c].len
          /\ pb[c].finished = CategoryOver(c)
    /\ \A c \in Categories :
          CategoryOver(c) => (c \in DOMAIN pb <=> StaleEntries(c) # <<>>)

\* C17, its case: download_resources is over for a category of which one task
\* ended well and one on a failure: the position counts both.
C17_Witness ==
    \E c \in DOMAIN pb :
        /\ pb[c].finished
        /\ pb[c].pos >= 2
        /\ \E k \in Ended(c) : tasks[c][k].outcome = "ok"
        /\ \E k \in Ended(c) : tasks[c][k].outcome \notin {"ok", "none"}

\* The task has sent its GET (download_file is past line 177).
Sent(t) ==
    \/ TaskOf(t).st \in {"file_create", "chunk"}
    \/ TaskOf(t).st = "done" /\ TaskOf(t).outcome \notin {"none", "dir_err"}

\* C18: in every state of a call the manifest URL has been requested once,
\* or not yet; every asset URL has been requested once for each task of that
\* URL that has sent its GET, whether the GET succeeded or failed, so each
\* task has sent at most one; nothing else was requested; and a category has
\* at most one task for each of its stale entries, so no entry, failed or
\* not, is dispatched a second time.
C18_NoRetry ==
    /\ CopiesIn(ManifestUrl, gets) = IF fetched.kind = "none" THEN 0 ELSE 1
    /\ \A u \in DOMAIN gets :
          u # ManifestUrl =>
              CopiesIn(u, gets) = Cardinality({t \in AllTasks : TaskOf(t).url = u /\ Sent(t)})
    /\ BagCardinality(gets)
          = CopiesIn(ManifestUrl, gets) + Cardinality({t \in AllTasks : Sent(t)})
    /\ \A c \in Categories :
          /\ Len(tasks[c]) <= Len(StaleEntries(c))
          /\ Dispatched(c) = SubSeq(StaleEntries(c), 1, Len(tasks[c]))

\* C18, its case: check_resources has returned; one task's GET failed in
\* transport, another's was answered with a non-success status, and each of
\* their URLs was requested once.
C18_Witness ==
    /\ pc = "returned"
    /\ \E t \in AllTasks : \E u \in AllTasks :
          /\ TaskOf(t).outcome = "get_err"
          /\ TaskOf(u).outcome = "status_err"
          /\ TaskOf(t).url # TaskOf(u).url
          /\ CopiesIn(TaskOf(t).url, gets) = 1
          /\ CopiesIn(TaskOf(u).url, gets) = 1

\* The task's transfer was interrupted after some chunks were written.
Interrupted(t) ==
    /\ TaskOf(t).outcome \in {"chunk_err", "write_err"}
    /\ TaskOf(t).body # <<>>

\* The spawn loop of download_resources is over for category c.
DispatchOver(c) ==
    /\ fetched.kind = "ok"
    /\ Processed(c)
    /\ \/ pc = "returned"
       \/ resource_type = c /\ pc = "await"
       \/ c = "fonts" /\ resource_type = "images"

\* A task of this call is for the entry e.
Redispatched(e) ==
    \E k \in 1..Len(tasks[e.category]) :
        /\ tasks[e.category][k].file = e.file
        /\ tasks[e.category][k].hash = e.hash

\* C19 as stated: when a call has returned, the file of every transfer that
\* was interrupted after some chunks holds the bytes written; and in the next
\* call, once the same manifest is fetched and the category's tasks are
\* spawned, every entry whose transfer was so interrupted in the call before
\* was stale by its digest and has a task again.
C19_Original ==
    /\ pc = "returned" =>
          \A t \in AllTasks :
              Interrupted(t) =>
                  /\ TaskOf(t).path \in DOMAIN fs
                  /\ fs[TaskOf(t).path] = TaskOf(t).body
    /\ \A e \in prev_partial :
          DispatchOver(e.category) =>
              /\ PathOf(e.category, e) \in DOMAIN fs0
              /\ Sha256Hex(fs0[PathOf(e.category, e)]) # e.hash
              /\ Redispatched(e)

\* C19 amended: the same for the transfers whose path no other task of their
\* call had, and, in the next call, for those whose written bytes do not have
\* the manifest's digest themselves.
C19_Amended ==
    /\ pc = "returned" =>
          \A t \in AllTasks :
              (Interrupted(t) /\ OwnPath(t)) =>
                  /\ TaskOf(t).path \in DOMAIN fs
                  /\ fs[TaskOf(t).path] = TaskOf(t).body
    /\ \A e \in prev_partial :
          (DispatchOver(e.category) /\ ~e.shared /\ Sha256Hex(e.written) # e.hash) =>
              /\ PathOf(e.category, e) \in DOMAIN fs0
              /\ fs0[PathOf(e.category, e)] = e.written
              /\ Sha256Hex(fs0[PathOf(e.category, e)]) # e.hash
              /\ Redispatched(e)

\* C19, its case: the transfer of a readable file was interrupted after its
\* first chunk in the first call, the bytes written have another digest than
\* the manifest's, and the second call has spawned a task for the entry.
C19_Witness ==
    /\ run = 2
    /\ \E e \in prev_partial :
          /\ ~e.shared
          /\ Sha256Hex(e.written) # e.hash
          /\ PathOf(e.category, e) \notin unreadable
          /\ DispatchOver(e.category)
          /\ Redispatched(e)

\* The task has been spawned and has not ended.
Live(t) == TaskOf(t).st # "done"

\* The list of category c names the file at two places or more.
NamedTwice(c, file) ==
    \E i \in 1..Len(remote[c]) : \E j \in 1..Len(remote[c]) :
        i # j /\ remote[c][i].file = file /\ remote[c][j].file = file

\* C20 as stated: whatever manifest was fetched, no two tasks that have not
\* ended have the same path, so no two tasks have one file open for writing.
C20_Original ==
    \A t \in AllTasks : \A u \in AllTasks :
        (t # u /\ Live(t) /\ Live(u)) => TaskOf(t).path # TaskOf(u).path

\* C20 amended: two tasks of a call have the same path only when they are of
\* one category whose list names that file twice; so for every manifest whose
\* lists name no file twice the paths of the tasks are pairwise different.
C20_Amended ==
    \A t \in AllTasks : \A u \in AllTasks :
        (t # u /\ TaskOf(t).path = TaskOf(u).path) =>
            /\ t[1] = u[1]
            /\ TaskOf(t).file = TaskOf(u).file
            /\ NamedTwice(t[1], TaskOf(t).file)

\* C20, its case: two tasks for two files are writing at the same time.
C20_Witness ==
    \E t \in AllTasks : \E u \in AllTasks :
        /\ t # u
        /\ TaskOf(t).st = "chunk"
        /\ TaskOf(u).st = "chunk"
        /\ TaskOf(t).path # TaskOf(u).path

\* C20, the other case: two tasks have the same file open for writing.
C20_BothWriting ==
    \E t \in AllTasks : \E u \in AllTasks :
        /\ t # u
        /\ TaskOf(t).st = "chunk"
        /\ TaskOf(u).st = "chunk"
        /\ TaskOf(t).path = TaskOf(u).path

\* What a task that has ended leaves of its file on the tree f when no other
\* task touches the file: the bytes it wrote, if File::create was reached.
ApplyTask(f, t) ==
    IF t.outcome \in {"ok", "chunk_err", "write_err"}
    THEN (t.path :> t.body) @@ f
    ELSE f

RECURSIVE ApplyAll(_, _)
ApplyAll(f, ts) ==
    IF ts = <<>> THEN f ELSE ApplyAll(ApplyTask(f, Head(ts)), Tail(ts))

\* The file tree of the run in which the tasks, with the outcomes and the
\* bytes they had in this run, run one after the other in spawn order.
SequentialResult == ApplyAll(ApplyAll(fs0, tasks["fonts"]), tasks["images"])

\* The tasks of the call whose path is p.
TasksOn(p) == {t \in AllTasks : TaskOf(t).path = p}

\* C21 as stated: when check_resources has returned, the file tree is the one
\* of the run from the same tree and manifest in which every request and
\* transfer met the same outcome and bytes and the tasks ran one after the
\* other in spawn order: the order of the tasks' steps does not show.
C21_Original == pc = "returned" => fs = SequentialResult

\* C21 amended: the same for every path that at most one task of the call
\* has.
C21_Amended ==
    pc = "returned" =>
        \A p \in (DOMAIN fs) \cup (DOMAIN SequentialResult) :
            Cardinality(TasksOn(p)) <= 1 =>
                /\ p \in DOMAIN fs
                /\ p \in DOMAIN SequentialResult
                /\ fs[p] = SequentialResult[p]

\* C21, its case: check_resources has returned after two tasks for two files
\* wrote, one the whole body, one up to a failure, over a file that was there.
C21_Witness ==
    /\ pc = "returned"
    /\ \E t \in AllTasks : \E u \in AllTasks :
          /\ TaskOf(t).path # TaskOf(u).path
          /\ TaskOf(t).outcome = "ok"
          /\ TaskOf(u).outcome \in {"chunk_err", "write_err"}
          /\ TaskOf(u).path \in DOMAIN fs0
          /\ fs[TaskOf(u).path] # fs0[TaskOf(u).path]

\* C21, the tasks' steps in another order than the spawn order: the second
\* task has ended while the first has not yet a permit.
C21_OutOfOrder ==
    \E c \in Categories :
        /\ Len(tasks[c]) >= 2
        /\ tasks[c][1].st = "acquire"
        /\ tasks[c][2].outcome = "ok"
        /\ tasks[c][1].path # tasks[c][2].path

\* C21, two runs on one path: from an empty tree and a manifest naming a.png
\* twice, the first task receiving <<1>> and the second <<1, 2>>, both ending
\* well, a.png ends as the one body, as the other, or as neither.
TwoOnOnePath ==
    /\ pc = "returned"
    /\ fs0 = <<>>
    /\ Len(tasks["images"]) = 2
    /\ tasks["images"][1].path = tasks["images"][2].path
    /\ tasks["images"][1].outcome = "ok" /\ tasks["images"][1].body = <<1>>
    /\ tasks["images"][2].outcome = "ok" /\ tasks["images"][2].body = <<1, 2>>
    /\ remote = [fonts |-> <<>>,
                 images |-> <<[file |-> ImageNames[1], hash |-> Sha256Hex(<<1>>)],
                              [file |-> ImageNames[1], hash |-> Sha256Hex(<<1, 2>>)]>>]

C21_FirstLeft == TwoOnOnePath /\ fs[tasks["images"][1].path] = <<1>>

C21_SecondLeft == TwoOnOnePath /\ fs[tasks["images"][1].path] = <<1, 2>>

\* The task failed on the network: a non-success response, a transport error
\* of the GET, or an error reading the body.
NetworkFailed(t) == TaskOf(t).outcome \in {"status_err", "get_err", "chunk_err"}

\* The file at p is as it was when the call began.
AsBefore(p) ==
    /\ (p \in DOMAIN fs) = (p \in DOMAIN fs0)
    /\ p \in DOMAIN fs => fs[p] = fs0[p]
    /\ p \notin created

\* C22 as stated: the file of a task that failed on the network is absent, or
\* is a file this call created and wrote part of a body to, whatever the file
\* was before.
C22_Original ==
    \A t \in AllTasks :
        NetworkFailed(t) =>
            \/ TaskOf(t).path \notin DOMAIN fs
            \/ TaskOf(t).path \in created

\* C22 amended: of a task whose path no other task has, a non-success
\* response or a transport error of the GET leaves the file as it was before
\* the call (absent, or the old content); an error reading the body leaves
\* the file created by the call, holding the chunks written before the error.
C22_Amended ==
    \A t \in AllTasks :
        OwnPath(t) =>
            /\ TaskOf(t).outcome \in {"status_err", "get_err"} => AsBefore(TaskOf(t).path)
            /\ TaskOf(t).outcome = "chunk_err" =>
                  /\ TaskOf(t).path \in created
                  /\ TaskOf(t).path \in DOMAIN fs
                  /\ fs[TaskOf(t).path] = TaskOf(t).body

\* C22, its case: check_resources has returned; the GET for a readable file
\* that was there with another digest than the manifest's was answered with a
\* non-success status, and the file is whole as it was.
C22_Witness ==
    /\ pc = "returned"
    /\ \E t \in AllTasks :
          /\ OwnPath(t)
          /\ TaskOf(t).outcome = "status_err"
          /\ TaskOf(t).path \in DOMAIN fs0
          /\ TaskOf(t).path \notin unreadable
          /\ Sha256Hex(fs0[TaskOf(t).path]) # TaskOf(t).hash
          /\ fs[TaskOf(t).path] = fs0[TaskOf(t).path]

\* C22, the other case: an error reading the body after the first chunk left
\* a file that was there holding that chunk alone.
C22_Truncated ==
    \E t \in AllTasks :
        /\ OwnPath(t)
        /\ TaskOf(t).outcome = "chunk_err"
        /\ TaskOf(t).path \in DOMAIN fs0
        /\ Len(fs0[TaskOf(t).path]) = 2
        /\ Len(fs[TaskOf(t).path]) = 1

\* Of a task that ended on a failure of create_dir_all: it has ended, and, its
\* path being no other task's, its URL was never requested, the directory was
\* not made and the file is as it was when the call began.
DirFailureLeft(t) ==
    TaskOf(t).outcome = "dir_err" =>
        /\ TaskOf(t).st = "done"
        /\ OwnPath(t) =>
              /\ ~BagIn(TaskOf(t).url, gets)
              /\ TaskOf(t).path \notin dirs
              /\ AsBefore(TaskOf(t).path)

\* The step in which create_dir_all fails for the task k of category c.
DirFailureStep(c, k) ==
    (tasks[c][k].st = "create_dir" /\ tasks'[c][k].outcome = "dir_err") =>
        /\ tasks'[c][k].st = "done"
        /\ gets' = gets
        /\ fs' = fs
        /\ created' = created
        /\ dirs' = dirs
        /\ semaphore'[c] = semaphore[c] + 1
        /\ pb'[c].pos = pb[c].pos + 1
        /\ pc' = pc
        /\ \A u \in AllTasks : u # <<c, k>> => tasks'[u[1]][u[2]] = TaskOf(u)

\* C23: the step in which create_dir_all fails for a task ends the task: it
\* sends no GET, creates and writes no file, gives the permit back, advances
\* the progress bar by one and changes no other task nor check_resources; and
\* a task so ended stays ended with no GET, directory or file of its own.
C23_DirFailure ==
    [][/\ \A c \in Categories : \A k \in 1..Len(tasks[c]) : DirFailureStep(c, k)
       /\ (\A t \in AllTasks : DirFailureLeft(t))'
      ]_vars

\* C23, its case: check_resources has returned; create_dir_all failed for one
\* task, and another task of the category, spawned after it, ended well.
C23_Witness ==
    /\ pc = "returned"
    /\ \E c \in Categories : \E k \in 1..Len(tasks[c]) : \E j \in 1..Len(tasks[c]) :
          /\ k < j
          /\ tasks[c][k].outcome = "dir_err"
          /\ tasks[c][k].path # tasks[c][j].path
          /\ tasks[c][j].outcome = "ok"
          /\ pb[c].pos = pb[c].len
          /\ semaphore[c] = Permits

\* The paths and the URLs of the entries of the manifest's fonts list.
FontPaths == {PathOf("fonts", remote["fonts"][i]) : i \in 1..Len(remote["fonts"])}

FontUrls == {UrlOf("fonts", remote["fonts"][i]) : i \in 1..Len(remote["fonts"])}

\* C24: with download_fonts off, check_resources never enters
\* download_resources for the fonts: no font file is hashed, no font task,
\* progress bar or semaphore exists, no font URL is requested, no font
\* directory or file is created, and every font file is as it was; and, the
\* flag on or off, the image files that can be hashed are hashed once the
\* images are checked, and a returned call has spawned exactly the tasks for
\* the images stale when it began, each run to its end.
C24_FontsSkipped ==
    /\ ~download_fonts =>
          /\ resource_type # "fonts"
          /\ tasks["fonts"] = <<>>
          /\ "fonts" \notin DOMAIN pb
          /\ "fonts" \notin DOMAIN semaphore
          /\ \A p \in FontPaths :
                /\ p \notin hashed
                /\ p \notin dirs
                /\ AsBefore(p)
          /\ \A u \in FontUrls : ~BagIn(u, gets)
    /\ (pc = "returned" /\ fetched.kind = "ok") =>
          /\ \A i \in 1..Len(remote["images"]) :
                LET p == PathOf("images", remote["images"][i])
                IN  (p \in DOMAIN fs0 /\ p \notin unreadable) => p \in hashed
          /\ Dispatched("images") = StaleEntries("images")
          /\ \A k \in 1..Len(tasks["images"]) : tasks["images"][k].st = "done"
          /\ "images" \in DOMAIN pb <=> StaleEntries("images") # <<>>

\* C24, its case: download_fonts is off and the manifest names a stale font;
\* check_resources has returned after hashing an image file and downloading
\* it.
C24_Witness ==
    /\ ~download_fonts
    /\ pc = "returned"
    /\ StaleEntries("fonts") # <<>>
    /\ \E p \in hashed : IsImagePath(p)
    /\ \E k \in 1..Len(tasks["images"]) : tasks["images"][k].outcome = "ok"

====
